---- MODULE Spec2Model ----
(***************************************************************************)
(* Model of the student-intro on-chain program (src/src/processor.rs).     *)
(*                                                                         *)
(* The ledger is a partial map from addresses to account records.  Every   *)
(* action is one whole request (one transaction holding one instruction):  *)
(* the host commits all of its writes or none, so a request that returns   *)
(* an error leaves the ledger as it was and only records its result.       *)
(***************************************************************************)
EXTENDS Integers, FiniteSets, Sequences, TLC

VARIABLES
    accounts,   \* the ledger: existing address -> account record
    last        \* the request processed last and its result

vars == <<accounts, last>>

(***************************************************************************)
(* Bounds of the model.                                                    *)
(***************************************************************************)
\* the general specification explores add_reply while the counter it decodes
\* is below this value
MaxReplies == 2

(***************************************************************************)
(* Program constants.                                                      *)
(***************************************************************************)
\* let account_len: usize = 1000;
AccountLen == 1000
\* "studentinfo".len()
StudentinfoDiscriminatorLen == 11
\* amount minted per introduction, in units of LAMPORTS_PER_SOL (10^9 base units)
RewardTokens == 10
\* decimals of the mint
MintDecimals == 9
\* the counter occupies one byte of the 4 + 7 + 1 + 1 bytes of its account
CounterModulus == 256

(***************************************************************************)
(* Addresses.  An address is a record; a derived address records the seeds *)
(* it was derived from, so that derivation is injective, as the hash       *)
(* behind find_program_address is taken to be.                             *)
(***************************************************************************)
Users == {"A", "B"}

Address(t, u, s, n) == [t |-> t, u |-> u, s |-> s, n |-> n, d |-> 0]

NoAddress == Address("none", "-", "-", 0)

\* a wallet: the public key of user u
Key(u) == Address("key", u, "-", 0)

Keys == {Key(u) : u \in Users}

SYSTEM_PROGRAM_ID == Address("system_program", "-", "-", 0)

TOKEN_PROGRAM_ID == Address("token_program", "-", "-", 0)

RENT_PROGRAM_ID == Address("sysvar_rent", "-", "-", 0)

\* an address that is none of the well-known or derived ones
BogusAddress == Address("bogus", "-", "-", 0)

\* Pubkey::find_program_address(&[initializer.key.as_ref()], program_id)
StudentPDA(key) == Address("studentinfo", key.u, key.t, 0)

\* Pubkey::find_program_address(&[user_pda.as_ref(), "reply".as_ref()], program_id)
CounterPDA(user_pda) == Address("counter", user_pda.u, user_pda.t, 0)

\* Pubkey::find_program_address(&[user_account.key, counter.to_be_bytes()], program_id)
ReplyPDA(user_account, counter) == Address("reply", user_account.u, user_account.t, counter)

\* Pubkey::find_program_address(&[b"token_mint"], program_id)
TokenMintPDA == Address("token_mint", "-", "-", 0)

\* Pubkey::find_program_address(&[b"token_auth"], program_id)
MintAuthPDA == Address("token_auth", "-", "-", 0)

\* get_associated_token_address(wallet, mint)
AssociatedTokenAddress(wallet, mint) == Address("ata", wallet.u, mint.t, 0)

(***************************************************************************)
(* Strings.  A string is len copies of one character: the program reads    *)
(* only the length of a string and copies its bytes.                       *)
(***************************************************************************)
Str(ch, len) == [ch |-> ch, len |-> len]

NoStr == Str("", 0)

(***************************************************************************)
(* Account records.                                                        *)
(***************************************************************************)
Exists(a) == a \in DOMAIN accounts

IsKind(a, kind) == Exists(a) /\ accounts[a].kind = kind

StudentInfo(name, msg) ==
    [owner |-> "program", kind |-> "StudentInfo", discriminator |-> "studentinfo",
     is_initialized |-> TRUE, name |-> name, msg |-> msg, garbled |-> FALSE]

ReplyCounter(counter) ==
    [owner |-> "program", kind |-> "ReplyCounter", discriminator |-> "counter",
     is_initialized |-> TRUE, counter |-> counter]

Reply(studentinfo, reply) ==
    [owner |-> "program", kind |-> "Reply", discriminator |-> "reply",
     is_initialized |-> TRUE, studentinfo |-> studentinfo, reply |-> reply]

Mint(authority, supply) ==
    [owner |-> "token_program", kind |-> "Mint", is_initialized |-> TRUE,
     decimals |-> MintDecimals, mint_authority |-> authority,
     freeze_authority |-> NoAddress, supply |-> supply]

TokenAccount(mint, wallet, amount) ==
    [owner |-> "token_program", kind |-> "TokenAccount", mint |-> mint,
     wallet |-> wallet, amount |-> amount]

\* the ledger m with account a set to record rec (created if absent)
Put(m, a, rec) == [x \in DOMAIN m \cup {a} |-> IF x = a THEN rec ELSE m[x]]

(***************************************************************************)
(* Requests.  A request is the instruction with its positional account     *)
(* list: one record shape for all operations, the accounts and arguments   *)
(* an operation does not take left at NoAddress and NoStr.                 *)
(***************************************************************************)
NoRequest ==
    [op |-> "none", initializer |-> NoAddress, is_signer |-> FALSE,
     user_account |-> NoAddress, reply_counter |-> NoAddress,
     reply_account |-> NoAddress, token_mint_pda |-> NoAddress,
     mint_auth_pda |-> NoAddress, user_ata |-> NoAddress,
     system_program |-> NoAddress, token_program |-> NoAddress,
     sysvar_rent |-> NoAddress, name |-> NoStr, message |-> NoStr, funded |-> FALSE]

Init ==
    /\ accounts = [a \in {} |-> NoRequest]
    /\ last = [req |-> NoRequest, res |-> "none"]

(***************************************************************************)
(* Record codec.  try_from_slice_unchecked reads a struct from the front   *)
(* of whatever bytes the account holds and .unwrap() aborts the request    *)
(* when the bytes run out; no handler compares the discriminator.          *)
(***************************************************************************)
\* (mutant) the length without the discriminator, as update_len counts it
TotalLenNoDiscriminator(name, message) == 1 + (4 + name.len) + (4 + message.len)

\* (4 + studentinfo_discriminator.len()) + 1 + (4 + name.len()) + (4 + message.len())
TotalLen(name, message) ==
    (4 + StudentinfoDiscriminatorLen) + 1 + (4 + name.len) + (4 + message.len)

\* 1 + (4 + account_data.name.len()) + (4 + message.len())
UpdateLen(name, message) == 1 + (4 + name.len) + (4 + message.len)

\* the first byte of an address; d counts the increments written over it
FirstByte(a) == ((IF a.u = "B" THEN 1 ELSE 0) + a.d) % CounterModulus

\* the bytes of an account that was not written as a ReplyCounter, read as one:
\* the counter is the byte that follows discriminator and is_initialized
ForeignAsReplyCounter(rec) ==
    CASE rec.kind = "StudentInfo" ->
             [ok |-> TRUE, counter |-> rec.name.len % CounterModulus]
      [] rec.kind = "Reply" ->
             [ok |-> TRUE, counter |-> FirstByte(rec.studentinfo)]
      [] rec.kind = "Zeroed" ->
             [ok |-> TRUE, counter |-> rec.counter]
      [] OTHER -> [ok |-> FALSE, counter |-> 0]

\* try_from_slice_unchecked::<ReplyCounter>(&reply_counter.data.borrow())
DecodeReplyCounter(m, a) ==
    IF a \notin DOMAIN m THEN [ok |-> FALSE, counter |-> 0]
    ELSE IF m[a].kind = "ReplyCounter" THEN [ok |-> TRUE, counter |-> m[a].counter]
    ELSE ForeignAsReplyCounter(m[a])

\* a ReplyCounter serialized over the front of an account of another kind:
\* discriminator and is_initialized are written back as read, the counter
\* byte changes.  In a StudentInfo that byte is the low byte of the name's
\* length prefix: the name grows into the (non-empty) message's prefix and
\* the record no longer decodes.
ForeignCounterWritten(rec, counter) ==
    CASE rec.kind = "StudentInfo" ->
             [rec EXCEPT !.name = Str(rec.name.ch,
                                      rec.name.len - (rec.name.len % CounterModulus) + counter),
                         !.garbled = TRUE]
      [] rec.kind = "Reply" ->
             [rec EXCEPT !.studentinfo =
                 [rec.studentinfo EXCEPT !.d = (@ + 1) % CounterModulus]]
      [] rec.kind = "Zeroed" -> [rec EXCEPT !.counter = counter]
      [] OTHER -> rec

\* counter_data.serialize(&mut &mut reply_counter.data.borrow_mut()[..])
SerializeReplyCounter(m, a, counter) ==
    IF m[a].kind = "ReplyCounter" THEN [m EXCEPT ![a].counter = counter]
    ELSE [m EXCEPT ![a] = ForeignCounterWritten(m[a], counter)]

\* try_from_slice_unchecked::<StudentInfo>(&user_account.data.borrow())
DecodeStudentInfo(m, a) ==
    IF a \notin DOMAIN m
    THEN [ok |-> FALSE, is_initialized |-> FALSE, name |-> NoStr, msg |-> NoStr]
    ELSE IF m[a].kind = "StudentInfo" /\ ~m[a].garbled
    THEN [ok |-> TRUE, is_initialized |-> m[a].is_initialized,
          name |-> m[a].name, msg |-> m[a].msg]
    ELSE IF m[a].kind = "Zeroed"
    THEN [ok |-> TRUE, is_initialized |-> FALSE, name |-> NoStr, msg |-> NoStr]
    ELSE [ok |-> FALSE, is_initialized |-> FALSE, name |-> NoStr, msg |-> NoStr]

(***************************************************************************)
(* Collaborators: the system program and the token program.                *)
(***************************************************************************)
\* (mutant) create_account that takes an address already in use
CreateAccountErrorOverwrites(m, target, is_signer, funded) ==
    IF ~is_signer THEN "MissingRequiredSignature"
    ELSE IF ~funded THEN "InsufficientFunds"
    ELSE "Ok"

\* invoke_signed of system_instruction::create_account: the invocation needs
\* the signature of the funding account, the system program then refuses an
\* address that is in use and last moves the rent out of the funding account
CreateAccountError(m, target, is_signer, funded) ==
    IF ~is_signer THEN "MissingRequiredSignature"
    ELSE IF target \in DOMAIN m THEN "AccountAlreadyInUse"
    ELSE IF ~funded THEN "InsufficientFunds"
    ELSE "Ok"

\* spl_token mint_to: the mint and the destination must be initialized
\* accounts of the token program and the authority must be the mint's
MintToError(m, mint, dest, authority) ==
    IF mint \notin DOMAIN m \/ dest \notin DOMAIN m THEN "TokenError"
    ELSE IF m[mint].kind # "Mint" \/ m[dest].kind # "TokenAccount" THEN "TokenError"
    ELSE IF m[dest].mint # mint \/ m[mint].mint_authority # authority THEN "TokenError"
    ELSE "Ok"

MintTo(m, mint, dest, amount) ==
    [m EXCEPT ![mint].supply = @ + amount, ![dest].amount = @ + amount]

(***************************************************************************)
(* add_student_intro                                                       *)
(***************************************************************************)
\* (mutant) name and message stored in each other's field
AddStudentIntroWritesSwapped(m, r) ==
    LET m1 == Put(m, r.user_account, StudentInfo(r.message, r.name))
        m2 == Put(m1, r.reply_counter, ReplyCounter(0))
    IN  MintTo(m2, r.token_mint_pda, r.user_ata, RewardTokens)

\* (mutant) the counter account is not written
AddStudentIntroWritesNoCounter(m, r) ==
    LET m1 == Put(m, r.user_account, StudentInfo(r.name, r.message))
    IN  MintTo(m1, r.token_mint_pda, r.user_ata, RewardTokens)

\* the ledger after the writes of a create request that passes every check
AddStudentIntroWrites(m, r) ==
    LET m1 == Put(m, r.user_account, StudentInfo(r.name, r.message))
        m2 == Put(m1, r.reply_counter, ReplyCounter(0))
    IN  MintTo(m2, r.token_mint_pda, r.user_ata, RewardTokens)

\* (mutant) the result of mint_to is dropped instead of returned
AddStudentIntroResultIgnoresMint(m, r) ==
    LET user_pda == StudentPDA(r.initializer) IN
    IF ~r.is_signer THEN "MissingRequiredSignature"
    ELSE IF user_pda # r.user_account THEN "InvalidPDA"
    ELSE IF r.token_mint_pda # TokenMintPDA THEN "IncorrectAccountError"
    ELSE IF r.mint_auth_pda # MintAuthPDA THEN "IncorrectAccountError"
    ELSE IF r.user_ata # AssociatedTokenAddress(r.initializer, r.token_mint_pda)
    THEN "IncorrectAccountError"
    ELSE IF r.token_program # TOKEN_PROGRAM_ID THEN "IncorrectAccountError"
    ELSE IF TotalLen(r.name, r.message) > AccountLen THEN "InvalidDataLength"
    ELSE IF CreateAccountError(m, r.user_account, r.is_signer, r.funded) # "Ok"
    THEN CreateAccountError(m, r.user_account, r.is_signer, r.funded)
    ELSE IF CounterPDA(user_pda) # r.reply_counter THEN "InvalidArgument"
    ELSE IF CreateAccountError(m, r.reply_counter, r.is_signer, r.funded) # "Ok"
    THEN CreateAccountError(m, r.reply_counter, r.is_signer, r.funded)
    ELSE "Ok"

\* (mutant) initializer.is_signer is not read by the handler
AddStudentIntroResultNoSignerCheck(m, r) ==
    LET user_pda == StudentPDA(r.initializer) IN
    IF user_pda # r.user_account THEN "InvalidPDA"
    ELSE IF r.token_mint_pda # TokenMintPDA THEN "IncorrectAccountError"
    ELSE IF r.mint_auth_pda # MintAuthPDA THEN "IncorrectAccountError"
    ELSE IF r.user_ata # AssociatedTokenAddress(r.initializer, r.token_mint_pda)
    THEN "IncorrectAccountError"
    ELSE IF r.token_program # TOKEN_PROGRAM_ID THEN "IncorrectAccountError"
    ELSE IF TotalLen(r.name, r.message) > AccountLen THEN "InvalidDataLength"
    ELSE IF CreateAccountError(m, r.user_account, r.is_signer, r.funded) # "Ok"
    THEN CreateAccountError(m, r.user_account, r.is_signer, r.funded)
    ELSE IF CounterPDA(user_pda) # r.reply_counter THEN "InvalidArgument"
    ELSE IF CreateAccountError(m, r.reply_counter, r.is_signer, r.funded) # "Ok"
    THEN CreateAccountError(m, r.reply_counter, r.is_signer, r.funded)
    ELSE MintToError(m, r.token_mint_pda, r.user_ata, r.mint_auth_pda)

\* the result of a create request, from the checks in the order of the code
AddStudentIntroResult(m, r) ==
    LET user_pda == StudentPDA(r.initializer) IN
    IF ~r.is_signer THEN "MissingRequiredSignature"
    ELSE IF user_pda # r.user_account THEN "InvalidPDA"
    ELSE IF r.token_mint_pda # TokenMintPDA THEN "IncorrectAccountError"
    ELSE IF r.mint_auth_pda # MintAuthPDA THEN "IncorrectAccountError"
    ELSE IF r.user_ata # AssociatedTokenAddress(r.initializer, r.token_mint_pda)
    THEN "IncorrectAccountError"
    ELSE IF r.token_program # TOKEN_PROGRAM_ID THEN "IncorrectAccountError"
    ELSE IF TotalLen(r.name, r.message) > AccountLen THEN "InvalidDataLength"
    ELSE IF CreateAccountError(m, r.user_account, r.is_signer, r.funded) # "Ok"
    THEN CreateAccountError(m, r.user_account, r.is_signer, r.funded)
    ELSE IF CounterPDA(user_pda) # r.reply_counter THEN "InvalidArgument"
    ELSE IF CreateAccountError(m, r.reply_counter, r.is_signer, r.funded) # "Ok"
    THEN CreateAccountError(m, r.reply_counter, r.is_signer, r.funded)
    ELSE MintToError(m, r.token_mint_pda, r.user_ata, r.mint_auth_pda)

AddStudentIntro(r) ==
    LET res == AddStudentIntroResult(accounts, r) IN
    /\ r.op = "add_student_intro"
    /\ accounts' = IF res = "Ok" THEN AddStudentIntroWrites(accounts, r) ELSE accounts
    /\ last' = [req |-> r, res |-> res]

(***************************************************************************)
(* update_student_intro                                                    *)
(***************************************************************************)
\* (mutant) the reward is minted on every edit too
UpdateStudentIntroWritesMints(m, r) ==
    MintTo([m EXCEPT ![r.user_account].msg = r.message], TokenMintPDA,
           AssociatedTokenAddress(r.initializer, TokenMintPDA), RewardTokens)

\* (mutant) account_data.name = name: the name of the request is stored too
UpdateStudentIntroWritesName(m, r) ==
    [m EXCEPT ![r.user_account].msg = r.message, ![r.user_account].name = r.name]

UpdateStudentIntroWrites(m, r) ==
    [m EXCEPT ![r.user_account].msg = r.message]

\* (mutant) the derived address is not compared with user_account
UpdateStudentIntroResultNoPDA(m, r) ==
    LET account_data == DecodeStudentInfo(m, r.user_account) IN
    IF ~account_data.ok THEN "Panic"
    ELSE IF ~account_data.is_initialized THEN "UninitializedAccount"
    ELSE IF m[r.user_account].owner # "program" THEN "IllegalOwner"
    ELSE IF UpdateLen(account_data.name, r.message) > 1000 THEN "InvalidDataLength"
    ELSE IF TotalLen(account_data.name, r.message) > AccountLen THEN "BorshIoError"
    ELSE "Ok"

UpdateStudentIntroResult(m, r) ==
    LET account_data == DecodeStudentInfo(m, r.user_account) IN
    IF ~account_data.ok THEN "Panic"
    ELSE IF ~account_data.is_initialized THEN "UninitializedAccount"
    ELSE IF m[r.user_account].owner # "program" THEN "IllegalOwner"
    ELSE IF StudentPDA(r.initializer) # r.user_account THEN "InvalidPDA"
    ELSE IF UpdateLen(account_data.name, r.message) > 1000 THEN "InvalidDataLength"
    ELSE IF TotalLen(account_data.name, r.message) > AccountLen THEN "BorshIoError"
    ELSE "Ok"

UpdateStudentIntro(r) ==
    LET res == UpdateStudentIntroResult(accounts, r) IN
    /\ r.op = "update_student_intro"
    /\ accounts' = IF res = "Ok" THEN UpdateStudentIntroWrites(accounts, r) ELSE accounts
    /\ last' = [req |-> r, res |-> res]

(***************************************************************************)
(* add_reply                                                               *)
(***************************************************************************)
\* counter_data.counter += 1 on a one-byte counter: at the maximum the build
\* either aborts the request (overflow checks) or wraps to 0
IncrementOutcomes(counter) ==
    IF counter + 1 < CounterModulus THEN {counter + 1} ELSE {0, -1}

AddReplyWrites(m, r, next) ==
    LET m1 == Put(m, r.reply_account, Reply(r.user_account, r.message))
    IN  SerializeReplyCounter(m1, r.reply_counter, next)

\* (mutant) the writes staged before a failed increment are kept
AddReplyCommitKeepsStaged(m, r, next, res) ==
    IF res = "Ok" THEN AddReplyWrites(m, r, next)
    ELSE IF res = "Panic" /\ next < 0
    THEN Put(m, r.reply_account, Reply(r.user_account, r.message))
    ELSE m

\* the ledger the host commits: every write of a request that returns Ok,
\* none of a request that returns an error or aborts
AddReplyCommit(m, r, next, res) ==
    IF res = "Ok" THEN AddReplyWrites(m, r, next) ELSE m

\* (mutant) the reply account is used as supplied, neither compared with the
\* derived address nor provisioned
AddReplyResultTakesAddress(m, r, next) ==
    LET counter_data == DecodeReplyCounter(m, r.reply_counter) IN
    IF ~counter_data.ok THEN "Panic"
    ELSE IF next < 0 THEN "Panic"
    ELSE IF m[r.reply_counter].owner # "program" THEN "ExternalAccountDataModified"
    ELSE "Ok"

AddReplyResult(m, r, next) ==
    LET counter_data == DecodeReplyCounter(m, r.reply_counter) IN
    IF ~counter_data.ok THEN "Panic"
    ELSE IF ReplyPDA(r.user_account, counter_data.counter) # r.reply_account
    THEN "InvalidPDA"
    ELSE IF CreateAccountError(m, r.reply_account, r.is_signer, r.funded) # "Ok"
    THEN CreateAccountError(m, r.reply_account, r.is_signer, r.funded)
    ELSE IF next < 0 THEN "Panic"
    ELSE IF m[r.reply_counter].owner # "program" THEN "ExternalAccountDataModified"
    ELSE "Ok"

AddReply(r) ==
    LET counter_data == DecodeReplyCounter(accounts, r.reply_counter) IN
    /\ r.op = "add_reply"
    /\ \E next \in IncrementOutcomes(counter_data.counter) :
          LET res == AddReplyResult(accounts, r, next) IN
          /\ accounts' = AddReplyCommit(accounts, r, next, res)
          /\ last' = [req |-> r, res |-> res]

(***************************************************************************)
(* initialize_token_mint                                                   *)
(***************************************************************************)
InitializeTokenMintWrites(m, r) ==
    Put(m, r.token_mint_pda, Mint(r.mint_auth_pda, 0))

\* (mutant) the mint account is provisioned over an existing one
InitializeTokenMintResultOverwrites(m, r) ==
    IF TokenMintPDA # r.token_mint_pda THEN "IncorrectAccountError"
    ELSE IF r.token_program # TOKEN_PROGRAM_ID THEN "IncorrectAccountError"
    ELSE IF r.mint_auth_pda # MintAuthPDA THEN "IncorrectAccountError"
    ELSE IF r.system_program # SYSTEM_PROGRAM_ID THEN "IncorrectAccountError"
    ELSE IF r.sysvar_rent # RENT_PROGRAM_ID THEN "IncorrectAccountError"
    ELSE CreateAccountErrorOverwrites(m, r.token_mint_pda, r.is_signer, r.funded)

InitializeTokenMintResult(m, r) ==
    IF TokenMintPDA # r.token_mint_pda THEN "IncorrectAccountError"
    ELSE IF r.token_program # TOKEN_PROGRAM_ID THEN "IncorrectAccountError"
    ELSE IF r.mint_auth_pda # MintAuthPDA THEN "IncorrectAccountError"
    ELSE IF r.system_program # SYSTEM_PROGRAM_ID THEN "IncorrectAccountError"
    ELSE IF r.sysvar_rent # RENT_PROGRAM_ID THEN "IncorrectAccountError"
    ELSE CreateAccountError(m, r.token_mint_pda, r.is_signer, r.funded)

InitializeTokenMint(r) ==
    LET res == InitializeTokenMintResult(accounts, r) IN
    /\ r.op = "initialize_token_mint"
    /\ accounts' = IF res = "Ok" THEN InitializeTokenMintWrites(accounts, r) ELSE accounts
    /\ last' = [req |-> r, res |-> res]

(***************************************************************************)
(* The environment: requests to other programs that prepare accounts.      *)
(***************************************************************************)
\* the client creates the author's associated token account of the mint,
\* which mint_to needs as its destination
CreateAssociatedTokenAccount(u) ==
    LET ata == AssociatedTokenAddress(Key(u), TokenMintPDA) IN
    /\ IsKind(TokenMintPDA, "Mint")
    /\ ~Exists(ata)
    /\ accounts' = Put(accounts, ata, TokenAccount(TokenMintPDA, Key(u), 0))
    /\ last' = [req |-> [NoRequest EXCEPT !.op = "create_ata", !.initializer = Key(u)],
                res |-> "Ok"]

\* an account a user creates with the system program at an address they hold
\* the key of: zero-filled and assigned to this program, or assigned to a
\* program of theirs and filled with the bytes of an introduction
KeypairAddress == Address("keypair", "-", "-", 0)

SystemCreateAccount(owner, name, msg) ==
    /\ ~Exists(KeypairAddress)
    /\ accounts' = Put(accounts, KeypairAddress,
                       IF owner = "program"
                       THEN [owner |-> "program", kind |-> "Zeroed", counter |-> 0]
                       ELSE [StudentInfo(name, msg) EXCEPT !.owner = owner])
    /\ last' = [req |-> [NoRequest EXCEPT !.op = "system_create_account"], res |-> "Ok"]

(***************************************************************************)
(* Request sets.                                                           *)
(***************************************************************************)
OtherUser(u) == CHOOSE v \in Users : v # u

CreateRequest(k, sg, ua, rc, mint, auth, ata, tok, nm, ms, f) ==
    [NoRequest EXCEPT !.op = "add_student_intro", !.initializer = k, !.is_signer = sg,
                      !.user_account = ua, !.reply_counter = rc,
                      !.token_mint_pda = mint, !.mint_auth_pda = auth,
                      !.user_ata = ata, !.token_program = tok,
                      !.system_program = SYSTEM_PROGRAM_ID,
                      !.name = nm, !.message = ms, !.funded = f]

\* the create request a well-behaved client builds for key k
ValidCreateRequest(k, nm, ms) ==
    CreateRequest(k, TRUE, StudentPDA(k), CounterPDA(StudentPDA(k)),
                  TokenMintPDA, MintAuthPDA, AssociatedTokenAddress(k, TokenMintPDA),
                  TOKEN_PROGRAM_ID, nm, ms, TRUE)

\* that request with one field of the account list changed
DeviantCreateRequests(k, nm, ms) ==
    LET v == ValidCreateRequest(k, nm, ms)
        o == Key(OtherUser(k.u))
    IN  { [v EXCEPT !.is_signer = FALSE],
          [v EXCEPT !.user_account = StudentPDA(o)],
          [v EXCEPT !.reply_counter = CounterPDA(StudentPDA(o))],
          [v EXCEPT !.token_mint_pda = MintAuthPDA],
          [v EXCEPT !.mint_auth_pda = BogusAddress],
          [v EXCEPT !.user_ata = AssociatedTokenAddress(o, TokenMintPDA)],
          [v EXCEPT !.token_program = SYSTEM_PROGRAM_ID],
          [v EXCEPT !.funded = FALSE] }

\* unsigned requests with a second field changed
UnsignedCreateRequests(k, nm, ms) ==
    { [r EXCEPT !.is_signer = FALSE] : r \in DeviantCreateRequests(k, nm, ms) }

UpdateRequest(k, sg, ua, nm, ms) ==
    [NoRequest EXCEPT !.op = "update_student_intro", !.initializer = k, !.is_signer = sg,
                      !.user_account = ua, !.name = nm, !.message = ms]

MintRequest(k, sg, mint, auth, sys, tok, rent, f) ==
    [NoRequest EXCEPT !.op = "initialize_token_mint", !.initializer = k, !.is_signer = sg,
                      !.token_mint_pda = mint, !.mint_auth_pda = auth,
                      !.system_program = sys, !.token_program = tok,
                      !.sysvar_rent = rent, !.funded = f]

ValidMintRequest(k) ==
    MintRequest(k, TRUE, TokenMintPDA, MintAuthPDA, SYSTEM_PROGRAM_ID,
                TOKEN_PROGRAM_ID, RENT_PROGRAM_ID, TRUE)

DeviantMintRequests(k) ==
    LET v == ValidMintRequest(k) IN
    { [v EXCEPT !.token_mint_pda = BogusAddress],
      [v EXCEPT !.mint_auth_pda = BogusAddress],
      [v EXCEPT !.system_program = BogusAddress],
      [v EXCEPT !.token_program = BogusAddress],
      [v EXCEPT !.sysvar_rent = BogusAddress],
      [v EXCEPT !.is_signer = FALSE],
      [v EXCEPT !.funded = FALSE] }

ReplyRequest(k, sg, ua, rc, ra, txt, f) ==
    [NoRequest EXCEPT !.op = "add_reply", !.initializer = k, !.is_signer = sg,
                      !.user_account = ua, !.reply_counter = rc, !.reply_account = ra,
                      !.system_program = SYSTEM_PROGRAM_ID, !.message = txt, !.funded = f]

\* add_reply requests on the accounts ua and rc in ledger m: the reply
\* address is derived from the value rc decodes to, or from the value after it
ReplyRequests(m, k, ua, rc, txt) ==
    { ReplyRequest(k, TRUE, ua, rc,
                   ReplyPDA(ua, DecodeReplyCounter(m, rc).counter + off), txt, TRUE) :
        off \in {0, 1} }

(***************************************************************************)
(* Specifications.                                                         *)
(***************************************************************************)
Name1 == Str("n", 1)

Name2 == Str("o", 3)

Message1 == Str("x", 5)

Message2 == Str("y", 6)

ReplyText == Str("r", 5)

IntroAddresses == {StudentPDA(k) : k \in Keys}

CounterAddresses == {CounterPDA(a) : a \in IntroAddresses}

\* the general specification: every operation of the program for two users,
\* add_reply with an introduction address as target and, as counter, any
\* counter, an introduction or a reply
NextCreate ==
    \E k \in Keys :
        \E r \in {ValidCreateRequest(k, Name1, Message1)}
                  \cup {[ValidCreateRequest(k, Name1, Message1) EXCEPT
                             !.user_ata = AssociatedTokenAddress(Key(OtherUser(k.u)),
                                                                 TokenMintPDA)]} :
            AddStudentIntro(r)

NextUpdate ==
    \E k \in Keys, sg \in BOOLEAN, ua \in IntroAddresses :
        UpdateStudentIntro(UpdateRequest(k, sg, ua, Name2, Message2))

NextReply ==
    \E ua \in IntroAddresses,
       rc \in CounterAddresses \cup {ReplyPDA(StudentPDA(Key("A")), 0),
                                     StudentPDA(Key("B"))} :
        /\ DecodeReplyCounter(accounts, rc).counter < MaxReplies
        /\ \E r \in ReplyRequests(accounts, Key("B"), ua, rc, ReplyText) : AddReply(r)

NextMint ==
    \E r \in {ValidMintRequest(Key("A"))} : InitializeTokenMint(r)

NextEnvironment ==
    \E u \in Users : CreateAssociatedTokenAccount(u)

Next == NextCreate \/ NextUpdate \/ NextReply \/ NextMint \/ NextEnvironment

Spec == Init /\ [][Next]_vars

\* the introduction lifecycle with deviant account lists: create, update and
\* initialize_token_mint with one account of the list wrong, unsigned, unfunded
IntroCreate ==
    \E k \in Keys :
        \E r \in {ValidCreateRequest(k, Name1, Message1)}
                  \cup DeviantCreateRequests(k, Name1, Message1)
                  \cup UnsignedCreateRequests(k, Name1, Message1) :
            AddStudentIntro(r)

IntroUpdate ==
    \E k \in Keys, sg \in BOOLEAN,
       ua \in IntroAddresses \cup {CounterPDA(StudentPDA(Key("A"))), KeypairAddress} :
        UpdateStudentIntro(UpdateRequest(k, sg, ua, Name2, Message2))

IntroMint ==
    \E r \in {ValidMintRequest(Key("A"))} \cup DeviantMintRequests(Key("A")) :
        InitializeTokenMint(r)

IntroEnvironment ==
    \/ \E u \in Users : CreateAssociatedTokenAccount(u)
    \/ \E o \in {"program", "other"} : SystemCreateAccount(o, Name1, Message1)

NextIntro == IntroCreate \/ IntroUpdate \/ IntroMint \/ IntroEnvironment

SpecIntro == Init /\ [][NextIntro]_vars

\* record sizes around the 1000-byte allocation, for a name of 3 bytes:
SizeName == Str("n", 3)

\* a message of 973 bytes makes 1000 bytes in all and one of 974 makes 1001;
\* a message of 988 bytes makes update_len 1000 and one of 989 makes 1001
LongMessages == {Str("z", 973), Str("z", 974), Str("z", 988), Str("z", 989)}

SizeCreate ==
    \E k \in Keys, ms \in {Message1, Str("z", 973), Str("z", 974)} :
        AddStudentIntro(ValidCreateRequest(k, SizeName, ms))

SizeUpdate ==
    \E k \in Keys, ms \in LongMessages \cup {Message2} :
        UpdateStudentIntro(UpdateRequest(k, TRUE, StudentPDA(k), Name2, ms))

SizeMint ==
    InitializeTokenMint(ValidMintRequest(Key("A")))

SizeEnvironment ==
    \E u \in Users : CreateAssociatedTokenAccount(u)

NextSize == SizeCreate \/ SizeUpdate \/ SizeMint \/ SizeEnvironment

SpecSize == Init /\ [][NextSize]_vars

\* the replies of one introduction, from the first to the one that takes the
\* counter over the largest value its byte holds: user B replies to the
\* introduction of A with the account list of a well-behaved client, with a
\* reply address derived from the counter value before the last increment,
\* without signature, or without the rent
ReplyAuthor == Key("A")

ReplyText2 == Str("s", 4)

\* the add_reply request of client k for the introduction of ReplyAuthor,
\* its reply address derived from the stored counter less back
ClientReplyRequest(m, k, sg, back, txt, f) ==
    LET ua == StudentPDA(ReplyAuthor)
        rc == CounterPDA(ua)
        c  == DecodeReplyCounter(m, rc).counter
    IN  ReplyRequest(k, sg, ua, rc,
                     ReplyPDA(ua, (c + CounterModulus - back) % CounterModulus), txt, f)

ReplyCreate ==
    AddStudentIntro(ValidCreateRequest(ReplyAuthor, Name1, Message1))

ReplyAdd ==
    \E r \in { ClientReplyRequest(accounts, Key("B"), TRUE, 0, ReplyText, TRUE),
                ClientReplyRequest(accounts, Key("A"), TRUE, 1, ReplyText2, TRUE),
                ClientReplyRequest(accounts, Key("B"), FALSE, 0, ReplyText, TRUE),
                ClientReplyRequest(accounts, Key("B"), TRUE, 0, ReplyText, FALSE) } :
        AddReply(r)

ReplyMint ==
    InitializeTokenMint(ValidMintRequest(ReplyAuthor))

ReplyEnvironment ==
    CreateAssociatedTokenAccount(ReplyAuthor.u)

NextReplies == ReplyCreate \/ ReplyAdd \/ ReplyMint \/ ReplyEnvironment

SpecReply == Init /\ [][NextReplies]_vars

(***************************************************************************)
(* Vocabulary of the properties.                                           *)
(***************************************************************************)
IsCreate(r) == r.op = "add_student_intro"

IsUpdate(r) == r.op = "update_student_intro"

IsAddReply(r) == r.op = "add_reply"

\* an introduction record of the program is stored at address a of ledger m
HasIntroduction(m, a) ==
    a \in DOMAIN m /\ m[a].kind = "StudentInfo" /\ m[a].owner = "program"
        /\ m[a].is_initialized

\* the addresses of the replies of ledger m whose back-reference is intro
RepliesOf(m, intro) ==
    {a \in DOMAIN m : m[a].kind = "Reply" /\ m[a].studentinfo = intro}

\* the count stored in the ReplyCounter derived from intro
CountOf(m, intro) == m[CounterPDA(intro)].counter

(***************************************************************************)
(* C1.  The stored message of an Introduction changes only in a step that  *)
(* is an update request naming the author and signed by the author: an     *)
(* update that is not signed by the author never changes the record.       *)
(* The code never reads initializer.is_signer in update_student_intro.     *)
(***************************************************************************)
C1_MessageChangesOnlyBySignedUpdate ==
    [][\A k \in Keys :
          LET a == StudentPDA(k) IN
          (HasIntroduction(accounts, a) /\ accounts'[a] # accounts[a])
              => (IsUpdate(last'.req) /\ last'.req.initializer = k
                    /\ last'.req.is_signer)]_vars

(***************************************************************************)
(* C2.  In create, update and add_reply, a supplied record address that    *)
(* differs from the re-derived one makes the request fail and no record is *)
(* created or changed.  (Stated without the error code, which the claim    *)
(* fixes as InvalidDerivedAddress: the weaker statement already fails.)    *)
(* add_reply never re-derives the address of reply_counter.                *)
(***************************************************************************)
\* some record address of request r is not the one the seed rules give in m
AddressMismatch(m, r) ==
    \/ /\ IsCreate(r)
       /\ \/ r.user_account # StudentPDA(r.initializer)
          \/ r.reply_counter # CounterPDA(StudentPDA(r.initializer))
    \/ /\ IsUpdate(r)
       /\ r.user_account # StudentPDA(r.initializer)
    \/ /\ IsAddReply(r)
       /\ \/ r.reply_counter # CounterPDA(r.user_account)
          \/ /\ CounterPDA(r.user_account) \in DOMAIN m
             /\ r.reply_account # ReplyPDA(r.user_account, CountOf(m, r.user_account))

C2_MismatchedAddressFails ==
    [][AddressMismatch(accounts, last'.req)
          => (last'.res # "Ok" /\ accounts' = accounts)]_vars

(***************************************************************************)
(* C3.  The k-th successful add_reply on an Introduction stores its Reply  *)
(* at the address derived from (Introduction address, k-1) and leaves k in *)
(* the Introduction's ReplyCounter.  k-1 is the number of replies the      *)
(* Introduction has before the call.                                       *)
(* Fails through the missing counter check of C2: an add_reply on A that   *)
(* passes the counter of B succeeds and leaves A's counter as it was.      *)
(***************************************************************************)
C3_KthReplyAtKMinusOne ==
    [][(IsAddReply(last'.req) /\ last'.res = "Ok"
            /\ HasIntroduction(accounts, last'.req.user_account))
          => LET intro == last'.req.user_account
                 k     == Cardinality(RepliesOf(accounts, intro)) + 1
             IN  /\ last'.req.reply_account = ReplyPDA(intro, k - 1)
                 /\ CountOf(accounts', intro) = k]_vars

(***************************************************************************)
(* C4.  Once an author has an Introduction, every create request of that   *)
(* author fails and changes nothing, with AccountAlreadyInUse when the     *)
(* request passes the checks that precede provisioning; the Introduction   *)
(* is never removed.  So at most one create per author succeeds.           *)
(***************************************************************************)
\* request r passes every check of add_student_intro that precedes create_account
WellFormedCreate(r) ==
    /\ r.is_signer
    /\ r.user_account = StudentPDA(r.initializer)
    /\ r.token_mint_pda = TokenMintPDA
    /\ r.mint_auth_pda = MintAuthPDA
    /\ r.user_ata = AssociatedTokenAddress(r.initializer, TokenMintPDA)
    /\ r.token_program = TOKEN_PROGRAM_ID
    /\ TotalLen(r.name, r.message) <= AccountLen

C4_LaterCreateFails ==
    [][\A k \in Keys :
          HasIntroduction(accounts, StudentPDA(k))
              => /\ HasIntroduction(accounts', StudentPDA(k))
                 /\ (IsCreate(last'.req) /\ last'.req.initializer = k)
                      => /\ last'.res # "Ok"
                         /\ accounts' = accounts
                         /\ WellFormedCreate(last'.req)
                              => last'.res = "AccountAlreadyInUse"]_vars

\* a well-formed create of an author who has an Introduction was refused
C4_Witness ==
    /\ IsCreate(last.req)
    /\ WellFormedCreate(last.req)
    /\ HasIntroduction(accounts, StudentPDA(last.req.initializer))
    /\ accounts[StudentPDA(last.req.initializer)].msg # last.req.message
    /\ last.res = "AccountAlreadyInUse"

(***************************************************************************)
(* C5.  After a successful create the Introduction at the author's derived *)
(* address is initialized and holds exactly the submitted name and message,*)
(* and the ReplyCounter at the derived counter address is initialized with *)
(* count 0.                                                                *)
(***************************************************************************)
C5_CreateStoresSubmitted ==
    (IsCreate(last.req) /\ last.res = "Ok")
        => LET r == last.req
               a == StudentPDA(r.initializer)
           IN  /\ WellFormedCreate(r)
               /\ HasIntroduction(accounts, a)
               /\ accounts[a] = StudentInfo(r.name, r.message)
               /\ CounterPDA(a) \in DOMAIN accounts
               /\ accounts[CounterPDA(a)] = ReplyCounter(0)

C5_Witness ==
    /\ IsCreate(last.req)
    /\ last.res = "Ok"
    /\ last.req.name # last.req.message

(***************************************************************************)
(* C6.  A successful update changes the message of the targeted            *)
(* Introduction and nothing else: its name and flag, the set of accounts,  *)
(* every counter, reply, the mint and every token account stay as they     *)
(* were.                                                                   *)
(***************************************************************************)
C6_UpdateChangesOnlyMessage ==
    [][(IsUpdate(last'.req) /\ last'.res = "Ok")
          => LET a == last'.req.user_account IN
             /\ HasIntroduction(accounts, a)
             /\ accounts' = [accounts EXCEPT ![a].msg = last'.req.message]]_vars

\* an update carrying another name succeeded while replies exist
C6_Witness ==
    /\ IsUpdate(last.req)
    /\ last.res = "Ok"
    /\ accounts[last.req.user_account].name # last.req.name
    /\ accounts[last.req.user_account].msg = last.req.message
    /\ RepliesOf(accounts, last.req.user_account) # {}

(***************************************************************************)
(* C7.  As claimed: an update whose user_account is not the address        *)
(* derived from the initializer fails with InvalidPDA and changes nothing. *)
(* The code decodes user_account and checks its flag and owner first, so   *)
(* an address without a record fails otherwise.                            *)
(***************************************************************************)
UpdateMismatch(r) == IsUpdate(r) /\ r.user_account # StudentPDA(r.initializer)

C7_MismatchedUpdateIsInvalidPDA ==
    [][UpdateMismatch(last'.req)
          => (last'.res = "InvalidPDA" /\ accounts' = accounts)]_vars

\* a decodable introduction record of the program is stored at a
ValidIntroduction(m, a) == HasIntroduction(m, a) /\ ~m[a].garbled

(***************************************************************************)
(* C7 amended.  Such an update always fails and changes nothing; it fails  *)
(* with InvalidPDA when user_account holds a decodable initialized         *)
(* Introduction owned by the program (for instance another user's).        *)
(***************************************************************************)
C7_MismatchedUpdateFails ==
    [][UpdateMismatch(last'.req)
          => /\ last'.res # "Ok"
             /\ accounts' = accounts
             /\ ValidIntroduction(accounts, last'.req.user_account)
                  => last'.res = "InvalidPDA"]_vars

\* a user's update of another user's Introduction was refused
C7_Witness ==
    /\ UpdateMismatch(last.req)
    /\ ValidIntroduction(accounts, last.req.user_account)
    /\ last.res = "InvalidPDA"

(***************************************************************************)
(* C8.  A create request that is otherwise in order succeeds when the      *)
(* serialized record is exactly 1000 bytes long, and fails with            *)
(* InvalidDataLength, creating no account, when it is 1001 bytes or more.  *)
(***************************************************************************)
\* request r is signed, funded and names every account the seed rules give
CreateInOrder(r) ==
    /\ IsCreate(r)
    /\ r.is_signer
    /\ r.funded
    /\ r.user_account = StudentPDA(r.initializer)
    /\ r.reply_counter = CounterPDA(StudentPDA(r.initializer))
    /\ r.token_mint_pda = TokenMintPDA
    /\ r.mint_auth_pda = MintAuthPDA
    /\ r.user_ata = AssociatedTokenAddress(r.initializer, TokenMintPDA)
    /\ r.token_program = TOKEN_PROGRAM_ID

\* ledger m lets request r be carried out: the author has no Introduction
\* yet, the mint is set up and the author's token account exists
Provisionable(m, r) ==
    /\ r.user_account \notin DOMAIN m
    /\ r.reply_counter \notin DOMAIN m
    /\ MintToError(m, r.token_mint_pda, r.user_ata, r.mint_auth_pda) = "Ok"

C8_CreateSizeBoundary ==
    [][CreateInOrder(last'.req)
          => LET r == last'.req
                 total == (4 + 11) + 1 + (4 + r.name.len) + (4 + r.message.len)
             IN  /\ total >= 1001
                      => (last'.res = "InvalidDataLength" /\ accounts' = accounts)
                 /\ (total = 1000 /\ Provisionable(accounts, r))
                      => (last'.res = "Ok" /\ HasIntroduction(accounts', r.user_account))]_vars

\* a record of 1001 bytes was refused while one of exactly 1000 bytes is stored
C8_Witness ==
    /\ CreateInOrder(last.req)
    /\ TotalLen(last.req.name, last.req.message) = 1001
    /\ last.res = "InvalidDataLength"
    /\ \E a \in DOMAIN accounts :
          /\ HasIntroduction(accounts, a)
          /\ TotalLen(accounts[a].name, accounts[a].msg) = 1000

(***************************************************************************)
(* C9.  An update of an initialized Introduction by its author fails with  *)
(* InvalidDataLength and changes nothing when the record with the stored   *)
(* name and the new message is longer than 1000 bytes, discriminator and   *)
(* flag included, and succeeds when it is at most 1000 bytes long.         *)
(* update_len leaves the 15 bytes of the discriminator out, so records of  *)
(* 1001 to 1015 bytes pass the check and fail in serialize instead.        *)
(***************************************************************************)
C9_UpdateSizeBoundary ==
    [][(IsUpdate(last'.req)
            /\ last'.req.user_account = StudentPDA(last'.req.initializer)
            /\ ValidIntroduction(accounts, last'.req.user_account))
          => LET a == last'.req.user_account
                 total == (4 + 11) + 1 + (4 + accounts[a].name.len)
                              + (4 + last'.req.message.len)
             IN  /\ total > 1000
                      => (last'.res = "InvalidDataLength" /\ accounts' = accounts)
                 /\ total <= 1000 => last'.res = "Ok"]_vars

(***************************************************************************)
(* C10.  In every state each author's token account holds the reward if    *)
(* the author has an Introduction and nothing otherwise, and the supply of *)
(* the mint is the reward times the number of Introductions.  Amounts are  *)
(* counted in units of LAMPORTS_PER_SOL = 10^9 base units.                 *)
(***************************************************************************)
Introductions(m) == {a \in DOMAIN m : HasIntroduction(m, a)}

C10_MintedMatchesIntroductions ==
    /\ \A k \in Keys :
          LET ata == AssociatedTokenAddress(k, TokenMintPDA) IN
          IF HasIntroduction(accounts, StudentPDA(k))
          THEN ata \in DOMAIN accounts /\ accounts[ata].amount = RewardTokens
          ELSE ata \in DOMAIN accounts => accounts[ata].amount = 0
    /\ Introductions(accounts) # {} => TokenMintPDA \in DOMAIN accounts
    /\ TokenMintPDA \in DOMAIN accounts
          => accounts[TokenMintPDA].supply
                 = RewardTokens * Cardinality(Introductions(accounts))

\* both authors were rewarded once, after updates and replies
C10_Witness ==
    /\ Cardinality(Introductions(accounts)) = 2
    /\ accounts[TokenMintPDA].supply = 2 * RewardTokens
    /\ \E a \in Introductions(accounts) :
          accounts[a].msg = Message2 /\ RepliesOf(accounts, a) # {}

(***************************************************************************)
(* C11.  setup_mint succeeds at most once: once the mint exists, every     *)
(* later setup_mint fails and changes nothing, with AccountAlreadyInUse    *)
(* from the provisioning step when the request is signed and names the     *)
(* five expected addresses, and the mint keeps 9 decimals, the derived     *)
(* authority address as minting authority and no freeze authority.         *)
(***************************************************************************)
IsSetupMint(r) == r.op = "initialize_token_mint"

\* request r is signed and passes the address checks of initialize_token_mint
SetupMintInOrder(r) ==
    /\ r.is_signer
    /\ r.token_mint_pda = TokenMintPDA
    /\ r.token_program = TOKEN_PROGRAM_ID
    /\ r.mint_auth_pda = MintAuthPDA
    /\ r.system_program = SYSTEM_PROGRAM_ID
    /\ r.sysvar_rent = RENT_PROGRAM_ID

\* the mint record as setup_mint leaves it, whatever its supply
MintAsSetUp(m) ==
    /\ TokenMintPDA \in DOMAIN m
    /\ m[TokenMintPDA].kind = "Mint"
    /\ m[TokenMintPDA].is_initialized
    /\ m[TokenMintPDA].decimals = 9
    /\ m[TokenMintPDA].mint_authority = MintAuthPDA
    /\ m[TokenMintPDA].freeze_authority = NoAddress

C11_SetupMintAtMostOnce ==
    [][/\ (IsSetupMint(last'.req) /\ last'.res = "Ok") => MintAsSetUp(accounts')
       /\ TokenMintPDA \in DOMAIN accounts
             => /\ MintAsSetUp(accounts) => MintAsSetUp(accounts')
                /\ IsSetupMint(last'.req)
                     => /\ last'.res # "Ok"
                        /\ accounts' = accounts
                        /\ SetupMintInOrder(last'.req)
                             => last'.res = "AccountAlreadyInUse"]_vars

\* a second setup_mint that is in order was refused at the provisioning
\* step, after the first one succeeded and a reward was minted
C11_Witness ==
    /\ IsSetupMint(last.req)
    /\ SetupMintInOrder(last.req)
    /\ last.res = "AccountAlreadyInUse"
    /\ MintAsSetUp(accounts)
    /\ accounts[TokenMintPDA].supply > 0

(***************************************************************************)
(* C12.  Of two add_reply requests against one Introduction whose reply    *)
(* addresses are derived from the same counter value, processed one after  *)
(* the other, at most one succeeds: when the first has succeeded the       *)
(* second fails with InvalidPDA (its address no longer matches the         *)
(* counter) or AccountAlreadyInUse (the address is taken), creates no      *)
(* Reply and leaves every counter as it was.  A request built from a       *)
(* counter value names an account that decodes as a counter.               *)
(***************************************************************************)
\* requests r1 and r2 reply to the same Introduction at the same address
SameReplySlot(r1, r2) ==
    /\ IsAddReply(r1) /\ IsAddReply(r2)
    /\ r1.user_account = r2.user_account
    /\ r1.reply_account = r2.reply_account

C12_SecondReplyOnSameCounterFails ==
    [][(/\ SameReplySlot(last.req, last'.req)
        /\ last.res = "Ok"
        /\ DecodeReplyCounter(accounts, last'.req.reply_counter).ok)
          => /\ last'.res \in {"InvalidPDA", "AccountAlreadyInUse"}
             /\ accounts' = accounts]_vars

\* the reply of A, built from the counter value that the reply of B just
\* consumed, was refused
C12_Witness ==
    /\ IsAddReply(last.req)
    /\ last.req.initializer = Key("A")
    /\ last.res = "InvalidPDA"
    /\ CountOf(accounts, last.req.user_account) = 1
    /\ last.req.reply_account = ReplyPDA(last.req.user_account, 0)
    /\ accounts[last.req.reply_account].reply = ReplyText

(***************************************************************************)
(* C13.  The count of a ReplyCounter never decreases: a new counter holds  *)
(* 0, a counter is never removed, its count changes only in a successful   *)
(* add_reply and then grows by exactly 1, also at the largest value of its *)
(* integer width.                                                          *)
(* The counter is one byte and counter_data.counter += 1 is unchecked      *)
(* arithmetic: in a build without overflow checks the 256th reply takes    *)
(* the count from 255 back to 0.                                           *)
(***************************************************************************)
\* the addresses of ledger m that hold a ReplyCounter record
Counters(m) == {a \in DOMAIN m : m[a].kind = "ReplyCounter"}

C13_CountNeverDecreases ==
    [][/\ \A a \in Counters(accounts') \ Counters(accounts) : accounts'[a].counter = 0
       /\ \A a \in Counters(accounts) :
             /\ a \in Counters(accounts')
             /\ accounts'[a].counter >= accounts[a].counter
             /\ accounts'[a].counter # accounts[a].counter
                   => /\ IsAddReply(last'.req) /\ last'.res = "Ok"
                      /\ accounts'[a].counter = accounts[a].counter + 1]_vars

(***************************************************************************)
(* C14.  An initialized Reply is never removed and its back-reference,     *)
(* text and initialized flag never change, whatever requests follow.       *)
(* Fails through the missing counter check of C2: add_reply writes the     *)
(* incremented count into whatever account is passed as reply_counter, and *)
(* in a Reply that byte is the first byte of the back-reference.           *)
(***************************************************************************)
\* the addresses of ledger m that hold an initialized Reply record
Replies(m) == {a \in DOMAIN m : m[a].kind = "Reply" /\ m[a].is_initialized}

C14_ReplyImmutable ==
    [][\A a \in Replies(accounts) :
          /\ a \in Replies(accounts')
          /\ accounts'[a].studentinfo = accounts[a].studentinfo
          /\ accounts'[a].reply = accounts[a].reply]_vars

(***************************************************************************)
(* C15.  In every committed state an author has an initialized             *)
(* Introduction at the derived address exactly when an initialized         *)
(* ReplyCounter is at the counter address derived from it; a create that   *)
(* fails leaves neither.                                                   *)
(***************************************************************************)
\* an initialized counter record of the program is stored at address a of m
HasCounter(m, a) ==
    a \in DOMAIN m /\ m[a].kind = "ReplyCounter" /\ m[a].owner = "program"
        /\ m[a].is_initialized

C15_IntroductionIffCounter ==
    \A k \in Keys :
        HasIntroduction(accounts, StudentPDA(k))
            <=> HasCounter(accounts, CounterPDA(StudentPDA(k)))

\* a create failed at the reward, after both accounts were provisioned and
\* written, and neither is on the ledger; the other author has both
C15_Witness ==
    /\ IsCreate(last.req)
    /\ last.res = "TokenError"
    /\ last.req.user_account \notin DOMAIN accounts
    /\ last.req.reply_counter \notin DOMAIN accounts
    /\ \E k \in Keys : HasIntroduction(accounts, StudentPDA(k))

(***************************************************************************)
(* C16.  add_reply writes the Reply before it increments the counter and a *)
(* failed add_reply leaves both as they were: the count and the Reply slot *)
(* are unchanged, so the same request derives the same address again; a    *)
(* successful one fills a slot that was empty and moves the counter in the *)
(* same step, and a counter moves in no other step.  So no counter value   *)
(* is consumed by two replies.                                             *)
(***************************************************************************)
C16_FailedReplyConsumesNothing ==
    [][/\ IsAddReply(last'.req)
             => LET r  == last'.req
                    c  == DecodeReplyCounter(accounts, r.reply_counter).counter
                    c2 == DecodeReplyCounter(accounts', r.reply_counter).counter
                IN  /\ last'.res # "Ok"
                          => /\ accounts' = accounts
                             /\ ReplyPDA(r.user_account, c2) = ReplyPDA(r.user_account, c)
                    /\ last'.res = "Ok"
                          => /\ r.reply_account \notin DOMAIN accounts
                             /\ accounts'[r.reply_account] = Reply(r.user_account, r.message)
                             /\ c2 # c
       /\ \A k \in Keys :
             LET rc == CounterPDA(StudentPDA(k)) IN
             (rc \in DOMAIN accounts /\ accounts'[rc] # accounts[rc])
                 => /\ IsAddReply(last'.req) /\ last'.res = "Ok"
                    /\ last'.req.reply_account \in DOMAIN accounts' \ DOMAIN accounts]_vars

\* an add_reply was aborted at the increment, after its Reply was written:
\* the counter still holds 255 and the slot for 255 is empty
C16_Witness ==
    /\ IsAddReply(last.req)
    /\ last.res = "Panic"
    /\ HasCounter(accounts, last.req.reply_counter)
    /\ accounts[last.req.reply_counter].counter = CounterModulus - 1
    /\ last.req.reply_account = ReplyPDA(last.req.user_account, CounterModulus - 1)
    /\ last.req.reply_account \notin DOMAIN accounts

(***************************************************************************)
(* C17.  A create request that the author has not signed fails with        *)
(* MissingRequiredSignature (the spec's MissingAuthorization), whatever    *)
(* the other addresses of its account list are, and changes nothing: no    *)
(* account is created and no token minted.                                 *)
(***************************************************************************)
C17_UnsignedCreateFailsFirst ==
    [][(IsCreate(last'.req) /\ ~last'.req.is_signer)
          => /\ last'.res = "MissingRequiredSignature"
             /\ accounts' = accounts]_vars

\* an unsigned create with the introduction address of another author was
\* refused for the signature, with mint and token account in place
C17_Witness ==
    /\ IsCreate(last.req)
    /\ ~last.req.is_signer
    /\ last.req.user_account # StudentPDA(last.req.initializer)
    /\ last.res = "MissingRequiredSignature"
    /\ MintAsSetUp(accounts)
    /\ last.req.user_ata \in DOMAIN accounts

(***************************************************************************)
(* C18.  In every state the count in the ReplyCounter of an Introduction   *)
(* is the number of initialized Replies whose back-reference is that       *)
(* Introduction, and these are at the addresses derived for the counter    *)
(* values 0 .. count-1, whatever account lists add_reply was given.        *)
(* Fails through the missing counter check of C2: an add_reply that names  *)
(* the introduction address of B and the counter of A leaves A's count at  *)
(* 1 with no reply to A.                                                   *)
(***************************************************************************)
C18_CountIsNumberOfReplies ==
    \A k \in Keys :
        LET intro == StudentPDA(k) IN
        (HasIntroduction(accounts, intro) /\ HasCounter(accounts, CounterPDA(intro)))
            => /\ Cardinality(RepliesOf(accounts, intro) \cap Replies(accounts))
                     = CountOf(accounts, intro)
               /\ RepliesOf(accounts, intro) \cap Replies(accounts)
                     = {ReplyPDA(intro, i) : i \in 0 .. CountOf(accounts, intro) - 1}

(***************************************************************************)
(* C19.  In every state the back-reference of every initialized Reply is   *)
(* the address of an initialized Introduction.                             *)
(* add_reply never reads user_account, and through the missing counter     *)
(* check of C2 it succeeds with the counter of another Introduction for an *)
(* address that holds no record.                                           *)
(***************************************************************************)
C19_ReplyRefersToIntroduction ==
    \A a \in Replies(accounts) : HasIntroduction(accounts, accounts[a].studentinfo)

(***************************************************************************)
(* C20.  No create succeeds before setup_mint has succeeded: in every      *)
(* state with an initialized Introduction the mint record exists and is    *)
(* initialized, because a create whose mint_to fails is aborted as a whole.*)
(***************************************************************************)
C20_IntroductionNeedsMint ==
    (\E k \in Keys : HasIntroduction(accounts, StudentPDA(k))) => MintAsSetUp(accounts)

\* a create that is in order failed at the reward while there was no mint,
\* and left no Introduction
C20_Witness ==
    /\ CreateInOrder(last.req)
    /\ last.res = "TokenError"
    /\ TokenMintPDA \notin DOMAIN accounts
    /\ \A k \in Keys : ~HasIntroduction(accounts, StudentPDA(k))

====
